---- MODULE Spec2Model ----
(***************************************************************************)
(* A model of GinkgoTestTreeDataProvider (src/unnamed/part_000): the       *)
(* discovery index, the run/result reconciliation, the document-change     *)
(* scheduler with its debounce timer, and the click disambiguator.         *)
(*                                                                         *)
(* GinkgoNode objects are heap objects with identity.  A node is the pair  *)
(* <<g, k>>: g is the discovery event that created the instance, k its     *)
(* key.  The mutable fields running and result live in the functions       *)
(* running and result, indexed by node.                                    *)
(***************************************************************************)
EXTENDS Integers, Sequences, FiniteSets, TLC

\* ------------------------------------------------------------------ bounds
MaxDiscoveries == 2      \* discovery events (generations of node instances)
MaxBatch == 2            \* results in one "test results" batch
MaxSteps == 4            \* events handled in one behaviour of SpecRecon

MaxTime == 4             \* the clock stops here
MaxTimers == 3           \* setTimeout calls in one behaviour
MaxSetting == 2          \* largest delay or threshold a setter is given
MaxInFlight == 2         \* getChildren calls awaiting the outline parser at once

\* ------------------------------------------------------- the node universe
Keys == {"R", "X", "A", "B"}

\* The node sets a discovery event can carry: a root R over a container X
\* with the specs A and B; a single spec A without any root; nothing.
ShapeNames == {"full", "leaf", "empty"}

\* The flattened set of a discovery, as keys, in source order.
Flat(s) ==
    CASE s = "full" -> <<"R", "X", "A", "B">>
      [] s = "leaf" -> <<"A">>
      [] OTHER -> << >>

\* node.nodes, as keys, for the node with key k of a set of shape s.
ChildKeys(s, k) ==
    IF s = "full"
    THEN CASE k = "R" -> <<"X">>
           [] k = "X" -> <<"A", "B">>
           [] OTHER -> << >>
    ELSE << >>

Undefined == <<0, "undefined">>

AllNodes == (1..MaxDiscoveries) \X Keys

Key(n) == n[2]

isRootNode(n) == Key(n) = "R"

\* A TestResult: the name of the test and its outcome.
TestResults ==
    { [testName |-> "A", isPassed |-> TRUE],
      [testName |-> "A", isPassed |-> FALSE],
      [testName |-> "B", isPassed |-> TRUE],
      [testName |-> "zz", isPassed |-> TRUE] }

NoResult == [testName |-> "undefined", isPassed |-> FALSE]

\* The names a result can carry: the keys, and a name no node has.
TestNames == Keys \cup {"zz"}

\* new Map(): get() answers undefined for every name.
EmptyMap == [k \in TestNames |-> Undefined]

\* The editors of the window: two main editors on Go files, a main editor
\* on a file that is not Go, and the output panel, which has no view column.
Editors == {"editorA", "editorB", "editorC", "output"}

NoEditor == "undefined"

\* editor.document.uri.toString()
Uri(e) ==
    CASE e = "editorA" -> "a.go"
      [] e = "editorB" -> "b.go"
      [] e = "editorC" -> "notes.md"
      [] OTHER -> "output:log"

\* editor.document.languageId
LanguageId(e) == IF e \in {"editorA", "editorB"} THEN "go" ELSE "plaintext"

\* GO_MODE.language
GoLanguage == "go"

Documents == {"a.go", "b.go"}

\* The nodes of the tree view: two outline parses of one file give two
\* instances of the specs A and B, with the spans the specs have in the file.
TreeNodes == (1..2) \X {"A", "B"}

Start(n) == IF Key(n) = "A" THEN 0 ELSE 20

End(n) == IF Key(n) = "A" THEN 10 ELSE 30

\* What a setter of a delay or a threshold can be given.
Settings == (-1)..MaxSetting

NoTimer == 0

\* The outline nodes of the tree view that a read can name as the parent:
\* a container X with the specs A and B below it, one instance per file.
DocIndex(doc) == IF doc = "a.go" THEN 1 ELSE 2

ElementNodes(element) ==
    LET ks == ChildKeys("full", Key(element))
    IN [i \in 1..Len(ks) |-> <<element[1], ks[i]>>]

\* What outlineFromDoc answers for a document: it fails, or it gives the
\* nested outline, which has no node when the file has no spec.
ParserOutcomes == {"error", "empty", "nested"}

Nested(doc, outcome) ==
    IF outcome = "nested" THEN << <<DocIndex(doc), "X">> >> ELSE << >>

\* The parents a read is asked for; Undefined is the read of the roots.
ReadElements == {Undefined, <<1, "X">>}

\* What a read answers: undefined, or an array of nodes.
NoData == [defined |-> FALSE, nodes |-> << >>]

Data(nodes) == [defined |-> TRUE, nodes |-> nodes]

RECURSIVE SeqsUpTo(_, _)
SeqsUpTo(S, n) ==
    IF n = 0 THEN {<< >>}
    ELSE LET shorter == SeqsUpTo(S, n - 1)
         IN shorter \cup {Append(q, x) : q \in {r \in shorter : Len(r) = n - 1}, x \in S}

Batches == SeqsUpTo(TestResults, MaxBatch)

Range(q) == {q[i] : i \in 1..Len(q)}

VARIABLES
    gen,                 \* discovery events so far
    shapeOf,             \* shapeOf[g]: the shape of the node set of discovery g
    running,             \* node.running, per node instance
    result,              \* node.result, per node instance
    discoveredTests,     \* this._discoveredTests: a sequence of nodes
    discoveredTestsMap,  \* this.discoveredTestsMap: key -> node
    rootNode,            \* this._rootNode
    fired,               \* what _onDidChangeTreeData fired in the last handler
    lastOp,              \* the handler that ran last, with its argument
    repeated,            \* the last handler ran with the event handled just before it
    steps,               \* events handled so far
    editor,              \* this.editor
    roots,               \* this.roots
    updateListener,      \* the document event this.updateListener listens to
    listeners,           \* the document events that have a listener registered
    parsing,             \* the getChildren calls awaiting outlineFromDoc
    returned,            \* what the last getChildren call answered
    notices,             \* the error messages the last getChildren call showed
    rootsFrom,           \* the call whose outline this.roots holds
    updateOnTypeDelay,   \* this.updateOnTypeDelay
    doubleClickThreshold,\* this.doubleClickThreshold
    documentChangedTimer,\* this.documentChangedTimer: a timer handle
    timers,              \* the timers set and neither run nor cleared
    nextTimer,           \* the handle the next setTimeout returns
    lastClickedNode,     \* this.lastClickedNode
    lastClickedTime,     \* this.lastClickedTime
    intent,              \* the editor calls of the last click
    now,                 \* Date.now()
    burst,               \* the changes of the current burst: those that set a
                         \* timer since no timer was pending
    burstSignals,        \* the timer signals since the burst began
    lastChange,          \* when the last change set its timer, and the delay then
    clicks               \* the last two clicks handled: <<the one before, the last>>

reconVars == <<gen, shapeOf, running, result, discoveredTests,
               discoveredTestsMap, rootNode>>

readVars == <<parsing, returned, notices, rootsFrom>>

schedVars == <<editor, roots, updateListener, listeners, updateOnTypeDelay,
               documentChangedTimer, timers, nextTimer, readVars>>

clickVars == <<doubleClickThreshold, lastClickedNode, lastClickedTime, intent>>

histVars == <<burst, burstSignals, lastChange, clicks>>

vars == <<reconVars, fired, lastOp, repeated, steps, schedVars, clickVars,
          now, histVars>>

Op(name, node, batch) == [op |-> name, node |-> node, batch |-> batch, arg |-> ""]

\* A handler of the editor, document, timer and setting events.
OpArg(name, a) == [op |-> name, node |-> Undefined, batch |-> << >>, arg |-> a]

NoClick == [node |-> Undefined, time |-> 0]

\* A getChildren call at its await: the document it handed to the parser,
\* the parent it was asked for, and what has happened since.
Call(doc, element) == [doc |-> doc, element |-> element, since |-> "nothing"]

NoCall == [doc |-> "", element |-> Undefined, since |-> "nothing"]

Max(a, b) == IF a >= b THEN a ELSE b

\* The node instances created so far.
Allocated == {n \in AllNodes : n[1] <= gen /\ Key(n) \in Range(Flat(shapeOf[n[1]]))}

\* node.nodes
Nodes(n) ==
    LET ks == ChildKeys(shapeOf[n[1]], Key(n))
    IN [i \in 1..Len(ks) |-> <<n[1], ks[i]>>]

Init ==
    /\ gen = 0
    /\ shapeOf = [g \in 1..MaxDiscoveries |-> "empty"]
    /\ running = [n \in AllNodes |-> FALSE]
    /\ result = [n \in AllNodes |-> NoResult]
    /\ discoveredTests = << >>
    /\ discoveredTestsMap = EmptyMap
    /\ rootNode = Undefined
    /\ fired = << >>
    /\ lastOp = Op("constructor", Undefined, << >>)
    /\ repeated = FALSE
    /\ steps = 0
    /\ editor \in Editors \cup {NoEditor}
    /\ roots = << >>
    /\ updateListener \in {"onType", "onSave"}
    /\ listeners = {updateListener}
    /\ parsing = {}
    /\ returned = NoData
    /\ notices = << >>
    /\ rootsFrom = NoCall
    /\ updateOnTypeDelay \in {Max(d, 0) : d \in Settings}
    /\ doubleClickThreshold \in Settings
    /\ documentChangedTimer = NoTimer
    /\ timers = {}
    /\ nextTimer = 1
    /\ lastClickedNode = Undefined
    /\ lastClickedTime = 0
    /\ intent = << >>
    /\ now = 1
    /\ burst = 0
    /\ burstSignals = 0
    /\ lastChange = [time |-> 0, delay |-> 0]
    /\ clicks = <<NoClick, NoClick>>

\* The node fields and the emitter, as the handlers see them: a handler
\* starts with nothing fired yet.
World == [running |-> running, result |-> result, fired |-> << >>]

\* ------------------------------------------------------- Discovery Index
\* nodes.find(n => isRootNode(n))
RECURSIVE Find(_)
Find(nodes) ==
    IF nodes = << >> THEN Undefined
    ELSE IF isRootNode(Head(nodes)) THEN Head(nodes)
    ELSE Find(Tail(nodes))

\* forEach(node => map.set(node.key, node)), starting from the map m
RECURSIVE SetAll(_, _)
SetAll(m, nodes) ==
    IF nodes = << >> THEN m
    ELSE SetAll([m EXCEPT ![Key(Head(nodes))] = Head(nodes)], Tail(nodes))

\* The index merged into the old one instead of rebuilt.
onDicoveredTest_merged(nodes) ==
    [ rootNode |-> Find(nodes),
      discoveredTests |-> IF Len(nodes) > 0 THEN nodes ELSE << >>,
      discoveredTestsMap |-> SetAll(discoveredTestsMap, nodes) ]

onDicoveredTest(nodes) ==
    [ rootNode |-> Find(nodes),
      discoveredTests |-> IF Len(nodes) > 0 THEN nodes ELSE << >>,
      discoveredTestsMap |-> SetAll(EmptyMap, IF Len(nodes) > 0 THEN nodes ELSE << >>) ]

\* --------------------------------------------------- Reconciliation Engine
\* A full refresh fired instead of the invalidation of the node.
onTestRunStarted_fullRefresh(w, testNode) ==
    [w EXCEPT !.running[testNode] = TRUE, !.fired = Append(@, Undefined)]

onTestRunStarted(w, testNode) ==
    [w EXCEPT !.running[testNode] = TRUE, !.fired = Append(@, testNode)]

\* commands.sendTestRunStarted(node): the run-started event, delivered to
\* its subscriber onTestRunStarted before it returns.
sendTestRunStarted(w, node) == onTestRunStarted(w, node)

\* The matching nodes started, their children left alone.
RECURSIVE PrepareEach_noChildren(_, _)
PrepareEach_noChildren(w, matches) ==
    IF matches = << >> THEN w
    ELSE PrepareEach_noChildren(sendTestRunStarted(w, Head(matches)), Tail(matches))

RECURSIVE prepareToRunTest(_, _), PrepareEach(_, _), PrepareChildren(_, _)
\* this.discoveredTests.filter(test => test.key === node.key).forEach(...)
prepareToRunTest(w, node) ==
    PrepareEach(w, SelectSeq(discoveredTests, LAMBDA test : Key(test) = Key(node)))

PrepareEach(w, matches) ==
    IF matches = << >> THEN w
    ELSE LET started == sendTestRunStarted(w, Head(matches))
         IN PrepareEach(PrepareChildren(started, Nodes(Head(matches))), Tail(matches))

\* node.nodes.forEach(c => this.prepareToRunTest(c))
PrepareChildren(w, children) ==
    IF children = << >> THEN w
    ELSE PrepareChildren(prepareToRunTest(w, Head(children)), Tail(children))

\* The result attached whether or not the node is running.
SettleResult_anyState(b, res) ==
    LET testNode == discoveredTestsMap[res.testName]
    IN IF testNode # Undefined
       THEN [ running |-> [b.running EXCEPT ![testNode] = FALSE],
              result |-> [b.result EXCEPT ![testNode] = res],
              fired |-> Append(b.fired, testNode),
              inResults |-> Append(b.inResults, Key(testNode)) ]
       ELSE b

\* The body of testResults.forEach for one result; b carries the node
\* fields, the emitter and the inResults list.
SettleResult(b, res) ==
    LET testNode == discoveredTestsMap[res.testName]
    IN IF testNode # Undefined /\ b.running[testNode]
       THEN [ running |-> [b.running EXCEPT ![testNode] = FALSE],
              result |-> [b.result EXCEPT ![testNode] = res],
              fired |-> Append(b.fired, testNode),
              inResults |-> Append(b.inResults, Key(testNode)) ]
       ELSE b

\* The results taken last to first.
RECURSIVE SettleAll_reversed(_, _)
SettleAll_reversed(b, testResults) ==
    IF testResults = << >> THEN b
    ELSE SettleResult(SettleAll_reversed(b, Tail(testResults)), Head(testResults))

RECURSIVE SettleAll(_, _)
SettleAll(b, testResults) ==
    IF testResults = << >> THEN b
    ELSE SettleAll(SettleResult(b, Head(testResults)), Tail(testResults))

\* The sweep taking the settled nodes instead of the unsettled ones.
StillRunning_settled(b) ==
    SelectSeq(discoveredTests,
              LAMBDA t : Key(t) \in Range(b.inResults) /\ b.running[t])

\* The sweep taking every unsettled node, running or not.
StillRunning_unsettled(b) ==
    SelectSeq(discoveredTests, LAMBDA t : Key(t) \notin Range(b.inResults))

\* filter(t => !inResults.includes(t.key) && t.running)
StillRunning(b) ==
    SelectSeq(discoveredTests,
              LAMBDA t : Key(t) \notin Range(b.inResults) /\ b.running[t])

\* forEach(testNode => { testNode.running = false; fire(testNode) }) over
\* the filtered array
RECURSIVE SweepEach(_, _)
SweepEach(b, nodes) ==
    IF nodes = << >> THEN b
    ELSE SweepEach([b EXCEPT !.running[Head(nodes)] = FALSE,
                             !.fired = Append(@, Head(nodes))],
                   Tail(nodes))

onTestResult(w, testResults) ==
    LET settled == SettleAll([ running |-> w.running, result |-> w.result,
                               fired |-> w.fired, inResults |-> << >> ],
                             testResults)
        swept == SweepEach(settled, StillRunning(settled))
    IN [running |-> swept.running, result |-> swept.result, fired |-> swept.fired]

\* ------------------------------------------------- Change-Detection Scheduler
\* Both listeners kept when the mode changes.
setUpdateOn_notDisposed(updateOn) ==
    [ updateListener |-> updateOn, listeners |-> listeners \cup {updateOn} ]

\* this.updateListener.dispose(), then the listener of the new mode
setUpdateOn(updateOn) ==
    [ updateListener |-> updateOn,
      listeners |-> (listeners \ {updateListener}) \cup {updateOn} ]

setUpdateOnTypeDelay(delay) == Max(delay, 0)

setDoubleClickThreshold(threshold) == Max(threshold, 0)

\* Every editor taken for a main editor.
isMainEditor_always(e) == TRUE

isMainEditor(e) == e # "output"

\* The editor taken over, the cached outline kept.
onActiveEditorChanged_rootsKept(e) ==
    [ editor |-> e, roots |-> roots, fired |-> <<Undefined>> ]

\* The handler after its early return.
onActiveEditorChanged(e) ==
    [ editor |-> e, roots |-> << >>, fired |-> <<Undefined>> ]

isDocumentForActiveEditor(doc) ==
    IF editor = NoEditor THEN FALSE ELSE Uri(editor) = doc

\* clearTimeout(handle): a handle that ran or was cleared clears nothing.
clearTimeout(pending, handle) == {t \in pending : t.id # handle}

\* setTimeout(callback, delay), answering the handle nextTimer
setTimeout(pending, delay) ==
    pending \cup {[id |-> nextTimer, at |-> now, delay |-> delay]}

\* The pending timer left to run beside the new one.
onDocumentChanged_notCleared ==
    [ roots |-> << >>,
      timers |-> setTimeout(timers, updateOnTypeDelay),
      documentChangedTimer |-> nextTimer ]

\* The handler after its two early returns.
onDocumentChanged ==
    LET cleared == IF documentChangedTimer # NoTimer
                   THEN clearTimeout(timers, documentChangedTimer)
                   ELSE timers
    IN [ roots |-> << >>,
         timers |-> setTimeout(cleared, updateOnTypeDelay),
         documentChangedTimer |-> nextTimer ]

\* The cached outline dropped, the signal left to a timer that is not set.
onDocumentSaved_silent == [ roots |-> << >>, fired |-> << >> ]

\* The handler after its early return.
onDocumentSaved == [ roots |-> << >>, fired |-> <<Undefined>> ]

\* What getChildren does up to its await or its return: start says whether
\* it calls outlineFromDoc.
getChildren(element) ==
    IF editor = NoEditor
    THEN [ start |-> FALSE, returned |-> NoData ]
    ELSE IF LanguageId(editor) # GoLanguage
    THEN [ start |-> FALSE, returned |-> NoData ]
    ELSE IF Len(roots) = 0
    THEN [ start |-> TRUE, returned |-> returned ]
    ELSE [ start |-> FALSE,
           returned |-> IF element = Undefined THEN Data(roots)
                        ELSE Data(ElementNodes(element)) ]

\* A failed parse empties the cached outline.
getChildrenResumed_cacheCleared(call, outcome) ==
    IF outcome = "error"
    THEN [ roots |-> << >>, rootsFrom |-> NoCall, returned |-> NoData,
           notices |-> <<"Could not populate the outline view">> ]
    ELSE LET nested == Nested(call.doc, outcome)
         IN [ roots |-> nested, rootsFrom |-> call,
              returned |-> IF call.element = Undefined THEN Data(nested)
                           ELSE Data(ElementNodes(call.element)),
              notices |-> << >> ]

\* The answer of the parser dropped when the cache was invalidated meanwhile.
getChildrenResumed_staleDropped(call, outcome) ==
    IF outcome = "error" \/ call.since # "nothing"
    THEN [ roots |-> roots, rootsFrom |-> rootsFrom, returned |-> NoData,
           notices |-> IF outcome = "error"
                       THEN <<"Could not populate the outline view">>
                       ELSE << >> ]
    ELSE LET nested == Nested(call.doc, outcome)
         IN [ roots |-> nested, rootsFrom |-> call,
              returned |-> IF call.element = Undefined THEN Data(nested)
                           ELSE Data(ElementNodes(call.element)),
              notices |-> << >> ]

\* The rest of getChildren once outlineFromDoc has answered.
getChildrenResumed(call, outcome) ==
    IF outcome = "error"
    THEN [ roots |-> roots, rootsFrom |-> rootsFrom, returned |-> NoData,
           notices |-> <<"Could not populate the outline view">> ]
    ELSE LET nested == Nested(call.doc, outcome)
         IN [ roots |-> nested, rootsFrom |-> call,
              returned |-> IF call.element = Undefined THEN Data(nested)
                           ELSE Data(ElementNodes(call.element)),
              notices |-> << >> ]

\* Every call at its await learns of an invalidation of the cache.
Since(calls, what) ==
    {[c EXCEPT !.since = IF @ = "editor" THEN @ ELSE what] : c \in calls}

\* ------------------------------------------------------- Click Disambiguator
\* A click exactly the threshold later still counted as recent.
wasRecentlyClicked_inclusive(threshold, lastNode, lastTime, currentNode, currentTime) ==
    /\ Start(lastNode) = Start(currentNode) /\ End(lastNode) = End(currentNode)
    /\ (currentTime - lastTime) <= threshold

wasRecentlyClicked(threshold, lastNode, lastTime, currentNode, currentTime) ==
    LET isSameNode == Start(lastNode) = Start(currentNode) /\ End(lastNode) = End(currentNode)
        recently == (currentTime - lastTime) < threshold
    IN isSameNode /\ recently

SingleClick == <<"highlightNode">>

DoubleClick == <<"setSelectionToNodeStart", "highlightOff", "focusActiveEditorGroup">>

\* The handler once an editor is tracked.
clickTreeItem(element) ==
    LET recentlyClicked ==
            IF lastClickedTime # 0 /\ lastClickedNode # Undefined
            THEN wasRecentlyClicked(doubleClickThreshold, lastClickedNode,
                                    lastClickedTime, element, now)
            ELSE FALSE
    IN [ lastClickedTime |-> now,
         lastClickedNode |-> element,
         intent |-> IF ~recentlyClicked THEN SingleClick ELSE DoubleClick ]

\* ------------------------------------------------------------ the events
DiscoveredTestEvent ==
    /\ steps < MaxSteps
    /\ gen < MaxDiscoveries
    /\ \E s \in ShapeNames :
          LET nodes == [i \in 1..Len(Flat(s)) |-> <<gen + 1, Flat(s)[i]>>]
              d == onDicoveredTest(nodes)
          IN /\ gen' = gen + 1
             /\ shapeOf' = [shapeOf EXCEPT ![gen + 1] = s]
             /\ rootNode' = d.rootNode
             /\ discoveredTests' = d.discoveredTests
             /\ discoveredTestsMap' = d.discoveredTestsMap
             /\ lastOp' = Op("onDicoveredTest", Undefined, << >>)
             /\ repeated' = (lastOp = Op("onDicoveredTest", Undefined, << >>))
    /\ fired' = << >>
    /\ steps' = steps + 1
    /\ UNCHANGED <<running, result, schedVars, clickVars, now, histVars>>

TestRunStartedEvent ==
    /\ steps < MaxSteps
    /\ \E testNode \in Allocated :
          LET w == onTestRunStarted(World, testNode)
          IN /\ running' = w.running
             /\ result' = w.result
             /\ fired' = w.fired
             /\ lastOp' = Op("onTestRunStarted", testNode, << >>)
             /\ repeated' = (lastOp = Op("onTestRunStarted", testNode, << >>))
    /\ steps' = steps + 1
    /\ UNCHANGED <<gen, shapeOf, discoveredTests, discoveredTestsMap, rootNode,
                   schedVars, clickVars, now, histVars>>

PrepareToRunTestCall ==
    /\ steps < MaxSteps
    /\ \E node \in Allocated :
          LET w == prepareToRunTest(World, node)
          IN /\ running' = w.running
             /\ result' = w.result
             /\ fired' = w.fired
             /\ lastOp' = Op("prepareToRunTest", node, << >>)
             /\ repeated' = (lastOp = Op("prepareToRunTest", node, << >>))
    /\ steps' = steps + 1
    /\ UNCHANGED <<gen, shapeOf, discoveredTests, discoveredTestsMap, rootNode,
                   schedVars, clickVars, now, histVars>>

TestResultsEvent ==
    /\ steps < MaxSteps
    /\ \E testResults \in Batches :
          LET w == onTestResult(World, testResults)
          IN /\ running' = w.running
             /\ result' = w.result
             /\ fired' = w.fired
             /\ lastOp' = Op("onTestResult", Undefined, testResults)
             /\ repeated' = (lastOp = Op("onTestResult", Undefined, testResults))
    /\ steps' = steps + 1
    /\ UNCHANGED <<gen, shapeOf, discoveredTests, discoveredTestsMap, rootNode,
                   schedVars, clickVars, now, histVars>>

ActiveEditorChanged ==
    /\ \E e \in Editors \cup {NoEditor} :
          IF e # NoEditor /\ ~isMainEditor(e)
          THEN /\ lastOp' = OpArg("onActiveEditorChanged ignored", e)
               /\ fired' = << >>
               /\ UNCHANGED <<editor, roots, parsing>>
          ELSE LET h == onActiveEditorChanged(e)
               IN /\ editor' = h.editor
                  /\ roots' = h.roots
                  /\ fired' = h.fired
                  /\ parsing' = Since(parsing, "editor")
                  /\ lastOp' = OpArg("onActiveEditorChanged", e)
    /\ UNCHANGED <<reconVars, repeated, steps, updateListener, listeners,
                   updateOnTypeDelay, documentChangedTimer, timers, nextTimer,
                   returned, notices, rootsFrom, clickVars, now, histVars>>

\* A document-changed event: no handler runs when no listener for document
\* changes is registered.
DocumentChanged ==
    /\ \E doc \in Documents, contentChanges \in 0..1 :
          IF "onType" \notin listeners
          THEN /\ lastOp' = OpArg("document changed, no listener", doc)
               /\ UNCHANGED <<roots, timers, documentChangedTimer, nextTimer,
                              parsing, burst, burstSignals, lastChange>>
          ELSE IF ~isDocumentForActiveEditor(doc) \/ contentChanges = 0
          THEN /\ lastOp' = OpArg("onDocumentChanged ignored", doc)
               /\ UNCHANGED <<roots, timers, documentChangedTimer, nextTimer,
                              parsing, burst, burstSignals, lastChange>>
          ELSE LET h == onDocumentChanged
               IN /\ nextTimer <= MaxTimers
                  /\ parsing' = Since(parsing, "changed")
                  /\ roots' = h.roots
                  /\ timers' = h.timers
                  /\ documentChangedTimer' = h.documentChangedTimer
                  /\ nextTimer' = nextTimer + 1
                  /\ lastOp' = OpArg("onDocumentChanged", doc)
                  /\ burst' = IF timers = {} THEN 1 ELSE burst + 1
                  /\ burstSignals' = IF timers = {} THEN 0 ELSE burstSignals
                  /\ lastChange' = [time |-> now, delay |-> updateOnTypeDelay]
    /\ fired' = << >>
    /\ UNCHANGED <<reconVars, repeated, steps, editor, updateListener, listeners,
                   updateOnTypeDelay, returned, notices, rootsFrom, clickVars,
                   now, clicks>>

\* A document-saved event: no handler runs when no listener for saves is
\* registered.
DocumentSaved ==
    /\ \E doc \in Documents :
          IF "onSave" \notin listeners
          THEN /\ lastOp' = OpArg("document saved, no listener", doc)
               /\ fired' = << >>
               /\ UNCHANGED <<roots, parsing>>
          ELSE IF ~isDocumentForActiveEditor(doc)
          THEN /\ lastOp' = OpArg("onDocumentSaved ignored", doc)
               /\ fired' = << >>
               /\ UNCHANGED <<roots, parsing>>
          ELSE LET h == onDocumentSaved
               IN /\ roots' = h.roots
                  /\ fired' = h.fired
                  /\ parsing' = Since(parsing, "saved")
                  /\ lastOp' = OpArg("onDocumentSaved", doc)
    /\ UNCHANGED <<reconVars, repeated, steps, editor, updateListener, listeners,
                   updateOnTypeDelay, documentChangedTimer, timers, nextTimer,
                   returned, notices, rootsFrom, clickVars, now, histVars>>

\* The callback of a timer that is due: () => this._onDidChangeTreeData.fire(undefined)
TimerRuns ==
    /\ \E t \in timers :
          /\ t.at + t.delay <= now
          /\ timers' = timers \ {t}
    /\ fired' = <<Undefined>>
    /\ lastOp' = OpArg("documentChangedTimer", "")
    /\ burstSignals' = burstSignals + 1
    /\ UNCHANGED <<reconVars, repeated, steps, editor, roots, updateListener,
                   listeners, updateOnTypeDelay, documentChangedTimer, nextTimer,
                   readVars, clickVars, now, burst, lastChange, clicks>>

\* A millisecond passes; a timer that is due runs before the clock moves on.
Tick ==
    /\ now < MaxTime
    /\ \A t \in timers : t.at + t.delay > now
    /\ now' = now + 1
    /\ UNCHANGED <<reconVars, fired, lastOp, repeated, steps, schedVars,
                   clickVars, histVars>>

SetUpdateOn ==
    /\ \E updateOn \in {"onType", "onSave"} :
          /\ updateListener' = setUpdateOn(updateOn).updateListener
          /\ listeners' = setUpdateOn(updateOn).listeners
          /\ lastOp' = OpArg("setUpdateOn", updateOn)
    /\ fired' = << >>
    /\ UNCHANGED <<reconVars, repeated, steps, editor, roots, updateOnTypeDelay,
                   documentChangedTimer, timers, nextTimer, readVars, clickVars,
                   now, histVars>>

SetUpdateOnTypeDelay ==
    /\ \E delay \in Settings : updateOnTypeDelay' = setUpdateOnTypeDelay(delay)
    /\ lastOp' = OpArg("setUpdateOnTypeDelay", "")
    /\ fired' = << >>
    /\ UNCHANGED <<reconVars, repeated, steps, editor, roots, updateListener,
                   listeners, documentChangedTimer, timers, nextTimer, readVars,
                   clickVars, now, histVars>>

SetDoubleClickThreshold ==
    /\ \E threshold \in Settings :
          doubleClickThreshold' = setDoubleClickThreshold(threshold)
    /\ lastOp' = OpArg("setDoubleClickThreshold", "")
    /\ fired' = << >>
    /\ UNCHANGED <<reconVars, repeated, steps, schedVars, lastClickedNode,
                   lastClickedTime, intent, now, histVars>>

ClickTreeItem ==
    /\ \E element \in TreeNodes :
          IF editor = NoEditor
          THEN /\ lastOp' = Op("clickTreeItem ignored", element, << >>)
               /\ UNCHANGED <<lastClickedNode, lastClickedTime, intent, clicks>>
          ELSE LET h == clickTreeItem(element)
               IN /\ lastClickedTime' = h.lastClickedTime
                  /\ lastClickedNode' = h.lastClickedNode
                  /\ intent' = h.intent
                  /\ lastOp' = Op("clickTreeItem", element, << >>)
                  /\ clicks' = <<clicks[2], [node |-> element, time |-> now]>>
    /\ fired' = << >>
    /\ UNCHANGED <<reconVars, repeated, steps, schedVars, doubleClickThreshold,
                   now, burst, burstSignals, lastChange>>

\* The tree view reads the roots or the children of a parent: getChildren
\* up to its await or its return.
GetChildren ==
    /\ \E element \in ReadElements :
          LET h == getChildren(element)
          IN IF h.start
             THEN /\ Cardinality(parsing) < MaxInFlight
                  /\ Call(Uri(editor), element) \notin parsing
                  /\ parsing' = parsing \cup {Call(Uri(editor), element)}
                  /\ lastOp' = Op("getChildren awaits", element, << >>)
                  /\ UNCHANGED returned
             ELSE /\ returned' = h.returned
                  /\ lastOp' = Op("getChildren", element, << >>)
                  /\ UNCHANGED parsing
    /\ fired' = << >>
    /\ notices' = << >>
    /\ UNCHANGED <<reconVars, repeated, steps, editor, roots, updateListener,
                   listeners, updateOnTypeDelay, documentChangedTimer, timers,
                   nextTimer, rootsFrom, clickVars, now, histVars>>

\* outlineFromDoc answers a call at its await, and the call runs to its end.
OutlineParsed ==
    /\ \E call \in parsing, outcome \in ParserOutcomes :
          LET h == getChildrenResumed(call, outcome)
          IN /\ parsing' = parsing \ {call}
             /\ roots' = h.roots
             /\ rootsFrom' = h.rootsFrom
             /\ returned' = h.returned
             /\ notices' = h.notices
             /\ lastOp' = [ op |-> "getChildren resumed", node |-> call.element,
                            batch |-> << >>, arg |-> outcome ]
    /\ fired' = << >>
    /\ UNCHANGED <<reconVars, repeated, steps, editor, updateListener, listeners,
                   updateOnTypeDelay, documentChangedTimer, timers, nextTimer,
                   clickVars, now, histVars>>

NextRecon ==
    \/ DiscoveredTestEvent
    \/ TestRunStartedEvent
    \/ PrepareToRunTestCall
    \/ TestResultsEvent

\* The reconciliation handlers read no setting: one configuration stands
\* for all of them.
InitRecon ==
    /\ Init
    /\ editor = "editorA"
    /\ updateListener = "onType"
    /\ updateOnTypeDelay = 0
    /\ doubleClickThreshold = 0

SpecRecon == InitRecon /\ [][NextRecon]_vars

NextSched ==
    \/ ActiveEditorChanged
    \/ DocumentChanged
    \/ DocumentSaved
    \/ TimerRuns
    \/ Tick
    \/ SetUpdateOn
    \/ SetUpdateOnTypeDelay

InitSched == Init /\ doubleClickThreshold = 0

SpecSched == InitSched /\ [][NextSched]_vars

NextClick ==
    \/ ClickTreeItem
    \/ Tick
    \/ SetDoubleClickThreshold
    \/ ActiveEditorChanged

InitClick == Init /\ updateListener = "onType" /\ updateOnTypeDelay = 0

SpecClick == InitClick /\ [][NextClick]_vars

\* The reads of the tree view among the events that invalidate the cached
\* outline, up to the moment a debounce timer runs.
NextRead ==
    \/ GetChildren
    \/ OutlineParsed
    \/ ActiveEditorChanged
    \/ DocumentChanged
    \/ DocumentSaved

InitRead == Init /\ updateOnTypeDelay = 0 /\ doubleClickThreshold = 0

SpecRead == InitRead /\ [][NextRead]_vars

\* ------------------------------------------------------------------ C9
\* At most one timer is pending, it is the one the last change set, and
\* once it is gone the burst has had exactly one signal.
OneTimerPerBurst ==
    /\ Cardinality(timers) <= 1
    /\ timers # {} =>
          /\ timers = {[id |-> documentChangedTimer, at |-> lastChange.time,
                        delay |-> lastChange.delay]}
          /\ burstSignals = 0
    /\ (timers = {} /\ burst > 0) => burstSignals = 1

\* C9: in a burst of document changes each of which arrives while the
\* timer of the one before is pending, at most one timer is pending at any
\* moment, no change fires a signal itself, and the burst ends with one
\* full "tree changed" signal, updateOnTypeDelay after its last change.
DebounceLaw ==
    /\ []OneTimerPerBurst
    /\ [][ (lastOp'.op = "onDocumentChanged" /\ nextTimer' # nextTimer)
           => /\ fired' = << >>
              /\ timers' = {[id |-> documentChangedTimer', at |-> now,
                             delay |-> updateOnTypeDelay]} ]_vars
    /\ [][ burstSignals' # burstSignals /\ burstSignals' # 0
           => /\ fired' = <<Undefined>>
              /\ timers' = {}
              /\ now = lastChange.time + lastChange.delay ]_vars

\* A burst of two changes or more, the last of them after the first
\* millisecond and with a delay, has ended with its one signal.
BurstEndedWithOneSignal ==
    /\ lastOp.op = "documentChangedTimer"
    /\ burst >= 2
    /\ burstSignals = 1
    /\ timers = {}
    /\ lastChange.time >= 2
    /\ lastChange.delay >= 1
    /\ fired = <<Undefined>>

\* ------------------------------------------------------------------ C10
SameSpan(a, b) == Start(a) = Start(b) /\ End(a) = End(b)

\* C10: a click handled while an editor is tracked is a double click
\* exactly when the click handled before it was on a node of the same
\* span, less than doubleClickThreshold earlier; otherwise it is a single
\* click. Every click handled becomes the last clicked node and time.
DoubleClickLaw ==
    /\ lastClickedNode = clicks[2].node
    /\ lastClickedTime = clicks[2].time
    /\ lastOp.op = "clickTreeItem" =>
          intent = IF /\ clicks[1] # NoClick
                      /\ SameSpan(clicks[1].node, clicks[2].node)
                      /\ clicks[2].time - clicks[1].time < doubleClickThreshold
                   THEN DoubleClick
                   ELSE SingleClick

\* A double click on another instance of the node clicked a millisecond
\* before.
DoubleClickOnSameSpan ==
    /\ lastOp.op = "clickTreeItem"
    /\ intent = DoubleClick
    /\ clicks[1].node # clicks[2].node
    /\ clicks[2].time = clicks[1].time + 1

Next == NextRecon \/ NextSched \/ NextClick \/ NextRead

Spec == Init /\ [][Next]_vars

\* ------------------------------------------------------------------ C1
\* C1: after every discovery event the index maps exactly the keys of the
\* newest node set to the nodes of that set, and the stored flattened set
\* and the root reference hold nodes of the newest set only.
IndexIsLastDiscovery ==
    /\ \A k \in TestNames :
          discoveredTestsMap[k] =
              IF gen > 0 /\ k \in Range(Flat(shapeOf[gen])) THEN <<gen, k>> ELSE Undefined
    /\ \A i \in DOMAIN discoveredTests : discoveredTests[i][1] = gen
    /\ rootNode # Undefined => rootNode[1] = gen

\* A second discovery has dropped keys the first one had.
SecondDiscoveryDropsKeys ==
    /\ gen = 2
    /\ shapeOf[1] = "full"
    /\ shapeOf[2] = "leaf"
    /\ lastOp.op = "onDicoveredTest"

\* ------------------------------------------------------------------ C2
IsStale(n) == n \in Allocated /\ n[1] < gen

\* C2: a run-started event, a prepareToRunTest call or a result batch never
\* changes running or result of a node of an earlier discovery, nor fires
\* an invalidation for it.
StaleNodesUntouched ==
    [][ lastOp'.op \in {"onTestRunStarted", "prepareToRunTest", "onTestResult"}
        => \A n \in AllNodes :
              IsStale(n) => /\ running'[n] = running[n]
                            /\ result'[n] = result[n]
                            /\ n \notin Range(fired') ]_vars

\* ------------------------------------------------------------------ C3
\* C3: onTestRunStarted(N) sets N.running, fires exactly one invalidation,
\* for N, and changes no other node field, nor the index, the flattened
\* set or the root reference.
RunStartedMarksOneNode ==
    [][ lastOp'.op = "onTestRunStarted"
        => /\ running' = [running EXCEPT ![lastOp'.node] = TRUE]
           /\ result' = result
           /\ fired' = <<lastOp'.node>>
           /\ UNCHANGED <<discoveredTests, discoveredTestsMap, rootNode, roots>> ]_vars

RunStartedHappened ==
    /\ lastOp.op = "onTestRunStarted"
    /\ running[lastOp.node]
    /\ fired = <<lastOp.node>>
    /\ \E n \in Allocated : n # lastOp.node /\ ~running[n]

\* ------------------------------------------------------------------ C4
Count(q, x) == Cardinality({i \in DOMAIN q : q[i] = x})

\* Result i of the batch finds its indexed node running: the node was
\* running before the batch and no earlier result of the batch names it.
FindsRunning(batch, i) ==
    /\ discoveredTestsMap[batch[i].testName] # Undefined
    /\ running[discoveredTestsMap[batch[i].testName]]
    /\ \A j \in 1..(i - 1) : batch[j].testName # batch[i].testName

\* C4: a result that finds its indexed node running leaves it not running,
\* with that result attached, and the batch fires exactly one invalidation
\* for the node.
MatchedResultSettles ==
    [][ lastOp'.op = "onTestResult"
        => \A i \in DOMAIN lastOp'.batch :
              FindsRunning(lastOp'.batch, i)
              => LET n == discoveredTestsMap[lastOp'.batch[i].testName]
                 IN /\ ~running'[n]
                    /\ result'[n] = lastOp'.batch[i]
                    /\ Count(fired', n) = 1 ]_vars

\* A batch named a running node twice, with different outcomes; the first
\* outcome is the one attached.
SettledByFirstOfTwo ==
    /\ lastOp.op = "onTestResult"
    /\ Len(lastOp.batch) = 2
    /\ lastOp.batch[1].testName = lastOp.batch[2].testName
    /\ lastOp.batch[1] # lastOp.batch[2]
    /\ discoveredTestsMap[lastOp.batch[1].testName] # Undefined
    /\ result[discoveredTestsMap[lastOp.batch[1].testName]] = lastOp.batch[1]
    /\ fired = <<discoveredTestsMap[lastOp.batch[1].testName]>>

\* ------------------------------------------------------------------ C5
RemoveAt(q, i) == SubSeq(q, 1, i - 1) \o SubSeq(q, i + 1, Len(q))

\* C5: a result whose name is not in the index, or whose indexed node is
\* not running when the result is processed, has no effect: the batch
\* leaves every running and result field, and fires, exactly as the batch
\* without that result does.
UnmatchedResultDropped ==
    [][ lastOp'.op = "onTestResult"
        => \A i \in DOMAIN lastOp'.batch :
              ~FindsRunning(lastOp'.batch, i)
              => LET without == onTestResult(World, RemoveAt(lastOp'.batch, i))
                 IN /\ running' = without.running
                    /\ result' = without.result
                    /\ fired' = without.fired ]_vars

\* A batch of one result for a node that is not running and has another
\* outcome attached: nothing is overwritten, nothing fired.
DroppedKeepsOldResult ==
    /\ lastOp.op = "onTestResult"
    /\ Len(lastOp.batch) = 1
    /\ fired = << >>
    /\ LET n == discoveredTestsMap[lastOp.batch[1].testName]
       IN /\ n # Undefined
          /\ result[n] # NoResult
          /\ result[n] # lastOp.batch[1]

\* ------------------------------------------------------------------ C6
\* C6: a node of the last-discovered set that was running and that no
\* result of the batch settled is not running after the batch and got an
\* invalidation; after the batch no node of the set is running.
UnsettledRunningSwept ==
    [][ lastOp'.op = "onTestResult"
        => /\ \A i \in DOMAIN discoveredTests :
                 LET n == discoveredTests[i]
                 IN (running[n] /\ \A j \in DOMAIN lastOp'.batch :
                                       discoveredTestsMap[lastOp'.batch[j].testName] # n)
                    => ~running'[n] /\ Count(fired', n) = 1
           /\ \A i \in DOMAIN discoveredTests' : ~running'[discoveredTests'[i]] ]_vars

\* A batch settled one running node and swept another.
SweptBesideSettled ==
    /\ lastOp.op = "onTestResult"
    /\ Len(lastOp.batch) > 0
    /\ Len(fired) >= 2
    /\ \E i \in DOMAIN fired :
          /\ result[fired[i]] = NoResult
          /\ \A j \in DOMAIN lastOp.batch : lastOp.batch[j].testName # Key(fired[i])
    /\ \E i \in DOMAIN fired : result[fired[i]] \in Range(lastOp.batch)

\* ------------------------------------------------------------------ C7
\* C7: a result batch processed a second time, right after the first,
\* changes no running or result field and fires nothing.
SecondBatchIsNoOp ==
    [][ ( /\ lastOp.op = "onTestResult"
          /\ lastOp'.op = "onTestResult"
          /\ lastOp'.batch = lastOp.batch )
        => /\ running' = running
           /\ result' = result
           /\ fired' = << >> ]_vars

\* The batch processed twice in a row had settled a node the first time.
BatchProcessedTwice ==
    /\ lastOp.op = "onTestResult"
    /\ repeated
    /\ fired = << >>
    /\ \E i \in DOMAIN lastOp.batch :
          /\ discoveredTestsMap[lastOp.batch[i].testName] # Undefined
          /\ result[discoveredTestsMap[lastOp.batch[i].testName]] = lastOp.batch[i]

\* ------------------------------------------------------------------ C8
\* The node and everything below it.
RECURSIVE Subtree(_)
Subtree(S) ==
    LET T == S \cup UNION {Range(Nodes(n)) : n \in S}
    IN IF T = S THEN S ELSE Subtree(T)

\* C8: prepareToRunTest on a node of the last-discovered set marks the
\* node and every node below it running, each with one run-started
\* signal, and marks nothing else.
PrepareMarksSubtree ==
    [][ (lastOp'.op = "prepareToRunTest" /\ lastOp'.node \in Range(discoveredTests))
        => /\ \A d \in Subtree({lastOp'.node}) : running'[d] /\ Count(fired', d) = 1
           /\ \A n \in AllNodes \ Subtree({lastOp'.node}) :
                 running'[n] = running[n] /\ n \notin Range(fired') ]_vars

\* The container X was prepared; its specs A and B are running, the root
\* above it is not.
ContainerPrepared ==
    /\ lastOp.op = "prepareToRunTest"
    /\ Key(lastOp.node) = "X"
    /\ lastOp.node \in Range(discoveredTests)
    /\ running[<<lastOp.node[1], "A">>]
    /\ running[<<lastOp.node[1], "B">>]
    /\ ~running[<<lastOp.node[1], "R">>]
    /\ fired = <<lastOp.node, <<lastOp.node[1], "A">>, <<lastOp.node[1], "B">> >>

\* ------------------------------------------------------------------ C12
\* C12: an accepted active-editor-changed event leaves no debounce timer
\* pending, so that no signal of an earlier document change follows it.
EditorChangeCancelsTimer ==
    [][ (lastOp'.op = "onActiveEditorChanged" /\ now' = now)
        => /\ timers' = {}
           /\ roots' = << >>
           /\ fired' = <<Undefined>> ]_vars

\* ------------------------------------------------------------------ C17
\* C17: the double-click threshold and the debounce delay are never
\* negative, whatever the constructor or a setter was given.
SettingsNonNegative == doubleClickThreshold >= 0 /\ updateOnTypeDelay >= 0

\* ------------------------------------------------------------------ C19
\* C19: once an onTestResult call has completed, no node that a run-started
\* event marked running is still running, whatever was discovered between.
NoNodeRunsForever ==
    [][ (lastOp'.op = "onTestResult" /\ steps' # steps)
        => \A n \in Allocated : ~running'[n] ]_vars

\* ------------------------------------------------------------------ C20
\* The steps that emit the full "tree changed" signal.
FullSignal == fired' = <<Undefined>> /\ now' = now

\* The steps that are a document-changed event.
DocumentChangedStep ==
    /\ now' = now
    /\ lastOp'.op \in {"document changed, no listener", "onDocumentChanged",
                       "onDocumentChanged ignored"}

\* C20 as stated: while the view is updated on save, a full signal comes
\* from a document-saved or an active-editor-changed event only, and one
\* document listener is registered.
OnSaveSignalsOnlyFromSaveOrEditor ==
    /\ [][ (updateListener = "onSave" /\ updateListener' = "onSave" /\ FullSignal)
           => lastOp'.op \in {"onDocumentSaved", "onActiveEditorChanged"} ]_vars
    /\ [](Cardinality(listeners) = 1)

\* C20: while the view is updated on save, a document-changed event reaches no
\* handler (no timer, no signal, cache kept); a full signal comes from a
\* document-saved event, an active-editor-changed event, or the one timer that
\* was pending when the mode changed; and the one registered document listener
\* is that of the mode.
OnSaveIgnoresLaterChanges ==
    /\ [][ (updateListener = "onSave" /\ DocumentChangedStep)
           => /\ lastOp'.op = "document changed, no listener"
              /\ timers' = timers
              /\ documentChangedTimer' = documentChangedTimer
              /\ roots' = roots
              /\ fired' = << >> ]_vars
    /\ [][ (updateListener = "onSave" /\ updateListener' = "onSave" /\ FullSignal)
           => \/ lastOp'.op \in {"onDocumentSaved", "onActiveEditorChanged"}
              \/ /\ lastOp'.op = "documentChangedTimer"
                 /\ Cardinality(timers) = 1
                 /\ timers' = {} ]_vars
    /\ [](listeners = {updateListener})

\* A document change went unheard after the mode changed while the timer of
\* an earlier change was pending.
UnheardChangeBesidePendingTimer ==
    /\ updateListener = "onSave"
    /\ lastOp.op = "document changed, no listener"
    /\ timers # {}

\* ------------------------------------------------------------------ C15
\* C15: an active-editor-changed event to an editor that has no view column
\* is always ignored; it changes neither the tracked editor, the cached
\* outline, the debounce timer, the index of discovered tests nor the click
\* state, and emits no signal.
NonPrimaryEditorIgnored ==
    /\ [][ (lastOp'.op = "onActiveEditorChanged" /\ now' = now)
           => lastOp'.arg # "output" ]_vars
    /\ [][ (lastOp'.op = "onActiveEditorChanged ignored" /\ now' = now)
           => /\ lastOp'.arg = "output"
              /\ UNCHANGED <<editor, roots, parsing, documentChangedTimer, timers,
                             discoveredTests, discoveredTestsMap, rootNode,
                             lastClickedNode, lastClickedTime, intent>>
              /\ fired' = << >> ]_vars

\* The output panel took the focus while an outline of the tracked editor
\* was cached.
OutputFocusedWithOutlineCached ==
    /\ lastOp = OpArg("onActiveEditorChanged ignored", "output")
    /\ editor = "editorA"
    /\ roots # << >>

\* ------------------------------------------------------------------ C11
\* C11: while the view is updated on save, a document-changed event starts
\* no timer and emits nothing, so no timer is ever pending; a document-saved
\* event for the tracked document empties the cached outline and emits the
\* full signal at once; a document-saved event for another document changes
\* nothing.
OnSaveLaw ==
    /\ [](updateListener = "onSave" => timers = {})
    /\ [][ (updateListener = "onSave" /\ DocumentChangedStep)
           => /\ lastOp'.op = "document changed, no listener"
              /\ UNCHANGED <<roots, parsing, timers, documentChangedTimer>>
              /\ fired' = << >> ]_vars
    /\ [][ (updateListener = "onSave" /\ now' = now
              /\ lastOp'.op \in {"onDocumentSaved", "onDocumentSaved ignored",
                                 "document saved, no listener"})
           => IF isDocumentForActiveEditor(lastOp'.arg)
              THEN /\ lastOp'.op = "onDocumentSaved"
                   /\ roots' = << >>
                   /\ fired' = <<Undefined>>
                   /\ timers' = {}
              ELSE /\ lastOp'.op = "onDocumentSaved ignored"
                   /\ UNCHANGED <<roots, parsing, timers, documentChangedTimer>>
                   /\ fired' = << >> ]_vars

\* The tracked document was saved after a read had answered with its
\* outline; the cached outline is gone and the full signal is out.
SavedAfterOutlineRead ==
    /\ updateListener = "onSave"
    /\ lastOp = OpArg("onDocumentSaved", Uri(editor))
    /\ rootsFrom.doc = Uri(editor)
    /\ returned = Data(Nested(Uri(editor), "nested"))
    /\ roots = << >>
    /\ fired = <<Undefined>>

\* ------------------------------------------------------------------ C14
\* C14: a read for a parent node answers with the nodes of that parent, and
\* neither calls the outline parser nor writes the cached outline, whatever
\* the cache holds.
ParentReadIsDirect ==
    /\ [][ (lastOp'.op \in {"getChildren", "getChildren awaits"}
              /\ lastOp'.node # Undefined /\ now' = now)
           => /\ lastOp'.op = "getChildren"
              /\ returned' = Data(ElementNodes(lastOp'.node))
              /\ UNCHANGED <<roots, parsing>> ]_vars
    /\ [][ (lastOp'.op = "getChildren resumed" /\ now' = now)
           => lastOp'.node = Undefined ]_vars

\* ------------------------------------------------------------------ C13
\* The steps in which a read of the roots learns that the parser failed.
RootReadFails ==
    /\ lastOp'.op = "getChildren resumed"
    /\ lastOp'.arg = "error"
    /\ lastOp'.node = Undefined
    /\ parsing' # parsing

\* C13 as stated: a read of the roots whose parse fails answers undefined,
\* shows one error message, leaves the cached outline empty, and the next
\* read of the roots calls the parser again.
FailedParseLeavesCacheEmpty ==
    [][ RootReadFails
        => /\ returned' = NoData
           /\ Len(notices') = 1
           /\ roots' = << >>
           /\ getChildren(Undefined)'.start ]_vars

\* C13: a read of the roots whose parse fails answers undefined, shows one
\* error message and does not write the cached outline; the next read of
\* the roots calls the parser again when the cached outline is empty and a
\* Go editor is tracked, and only then.
FailedParseLeavesCacheAlone ==
    [][ RootReadFails
        => /\ returned' = NoData
           /\ Len(notices') = 1
           /\ roots' = roots
           /\ rootsFrom' = rootsFrom
           /\ getChildren(Undefined)'.start
                <=> /\ roots' = << >>
                    /\ editor' # NoEditor
                    /\ LanguageId(editor') = GoLanguage ]_vars

\* A read of the roots failed after another read, begun beside it, had
\* filled the cached outline.
FailedBesideFilledCache ==
    /\ lastOp.op = "getChildren resumed"
    /\ lastOp.arg = "error"
    /\ lastOp.node = Undefined
    /\ returned = NoData
    /\ Len(notices) = 1
    /\ roots # << >>

\* ------------------------------------------------------------------ C16
\* C16 as stated: a cached outline that is not empty was parsed from the
\* document of the tracked editor.
CachedOutlineIsOfTrackedDocument ==
    roots # << >>
      => /\ editor # NoEditor
         /\ rootsFrom.doc = Uri(editor)
         /\ roots = Nested(Uri(editor), "nested")

\* C16: a cached outline that is not empty was parsed from the document of
\* the tracked editor, unless an active-editor-changed event was accepted
\* while the parse that filled it was awaited; the cache then holds the
\* outline of the document that was tracked when the read began.
CachedOutlineIsOfTrackedDocumentUnlessCrossed ==
    roots # << >>
      => /\ roots = Nested(rootsFrom.doc, "nested")
         /\ \/ rootsFrom.since = "editor"
            \/ /\ editor # NoEditor
               /\ rootsFrom.doc = Uri(editor)

\* The outline of a.go was cached while editorB is tracked: the read began
\* under editorA and its parse was answered after the editor changed.
StaleOutlineCached ==
    /\ editor = "editorB"
    /\ roots = Nested("a.go", "nested")
    /\ rootsFrom.doc = "a.go"
    /\ rootsFrom.since = "editor"

\* ------------------------------------------------------------------ C18
\* The call whose parse is answered in this step.
Answered == CHOOSE call \in parsing : call \notin parsing'

\* The steps in which a read of the roots gets the outline of a parse that
\* an invalidation of the cache has overtaken.
OvertakenRootReadSucceeds ==
    /\ lastOp'.op = "getChildren resumed"
    /\ lastOp'.arg # "error"
    /\ lastOp'.node = Undefined
    /\ parsing' # parsing
    /\ Answered.since # "nothing"

\* C18 as stated: the outline of an overtaken parse is written to the cache,
\* and the following read of the roots answers with it without calling the
\* parser.
OvertakenParseServesNextRead ==
    [][ OvertakenRootReadSucceeds
        => /\ roots' = Nested(Answered.doc, lastOp'.arg)
           /\ ~getChildren(Undefined)'.start
           /\ getChildren(Undefined)'.returned = Data(roots') ]_vars

\* C18: the outline of an overtaken parse is written to the cache and is the
\* answer of the read that awaited it; the following read of the roots
\* answers with it without calling the parser when a Go editor is tracked
\* and the outline has a node, calls the parser again when a Go editor is
\* tracked and the outline has no node, and answers undefined otherwise.
OvertakenParseIsCached ==
    [][ OvertakenRootReadSucceeds
        => /\ roots' = Nested(Answered.doc, lastOp'.arg)
           /\ rootsFrom' = Answered
           /\ returned' = Data(roots')
           /\ IF editor' = NoEditor \/ LanguageId(editor') # GoLanguage
              THEN /\ ~getChildren(Undefined)'.start
                   /\ getChildren(Undefined)'.returned = NoData
              ELSE IF roots' = << >>
              THEN getChildren(Undefined)'.start
              ELSE /\ ~getChildren(Undefined)'.start
                   /\ getChildren(Undefined)'.returned = Data(roots') ]_vars

\* A read of the roots was answered with the outline of a parse that a
\* change of the document had overtaken, and the outline is cached.
OvertakenOutlineCached ==
    /\ lastOp.op = "getChildren resumed"
    /\ lastOp.arg = "nested"
    /\ lastOp.node = Undefined
    /\ rootsFrom.since = "changed"
    /\ roots = Nested(rootsFrom.doc, "nested")
    /\ returned = Data(roots)

====
